---- MODULE Spec2Model ----
(***************************************************************************)
(* Typing-session state machine of typing-ninja-extended: the word page    *)
(* (routes/+page.svelte) and the formatted page                            *)
(* (routes/formatted/+page.svelte), their timers, and the custom-practice  *)
(* store that hands a document's text to either page.                      *)
(*                                                                         *)
(* A JavaScript string is a sequence of one-character strings; a word list *)
(* is a sequence of such sequences.  Every handler is an operator from a   *)
(* "world" record to a world record                                        *)
(*     [gs    : the page's gameStates,                                     *)
(*      cps   : customPracticeState (the store's value),                   *)
(*      calls : the documentStore.addPerformance calls made since the last *)
(*              initGame, oldest first,                                    *)
(*      timer : whether the interval behind timerInterval is live,         *)
(*      ticks : how many times the interval's callback has run since the   *)
(*              session's startGame]                                       *)
(* so that a handler that calls another (handleTabInput calling            *)
(* handleCharacterInput calling stopGame) is the composition of operators. *)
(* recentKeys, themes and isShowKeyboard feed only the presentation and    *)
(* are left out.  The document store (stores/document-store.ts) is the     *)
(* record documentStore; its titles, tags and dates are left out.          *)
(***************************************************************************)
EXTENDS Integers, Sequences, FiniteSets, TLC

VARIABLES page, gameStates, customPracticeState, recorded, timerInterval,
          ticks, progressStore, documentStore

pageVars ==
    <<page, gameStates, customPracticeState, recorded, timerInterval, ticks>>

vars == <<pageVars, progressStore, documentStore>>

----------------------------------------------------------------------------
(* Bounds of the model *)

\* generated word lists are cut to this many words
MaxWords == 2
\* a word-page session holds at most this many typed characters
MaxWordInput == 2
\* the formatted page's userInput holds at most this many characters
MaxInput == 6
\* a count-up timer ticks at most this many times per session
MaxTicks == 1
\* the progress utilities are given texts of at most this many words
MaxProgressWords == 2
\* the document store is given at most this many documents
MaxDocuments == 2
\* the document store is given at most this many performance records
MaxPerformances == 2

----------------------------------------------------------------------------
(* JavaScript values *)

\* what indexing past the end of a string or array yields
Undefined == "undefined"

TAB == "\t"
NEWLINE == "\n"
SPACE == " "

\* s[i] with JavaScript's 0-based indexing
CharAt(s, i) == IF i >= 0 /\ i < Len(s) THEN s[i + 1] ELSE Undefined

\* s.slice(0, -1)
DropLast(s) == SubSeq(s, 1, Len(s) - 1)

Max(a, b) == IF a >= b THEN a ELSE b

\* Math.round of the non-negative rational n / d (d > 0): halves round up
RoundDiv(n, d) == (2 * n + d) \div (2 * d)

\* the two non-finite numbers a division by zero produces, as values no
\* metric otherwise takes
NaN == -1
Infinity == -2

\* Math.round(n / d) for n >= 0 and d >= 0: 0 / 0 is NaN, n / 0 is Infinity
JsRound(n, d) ==
    IF d > 0 THEN RoundDiv(n, d) ELSE IF n = 0 THEN NaN ELSE Infinity

IsWhitespace(c) == c \in {SPACE, TAB, NEWLINE}

\* the keys the model presses; e.key of a printable key is the character
PrintableKeys == {"a", "b", SPACE}
NamedKeys == {"Tab", "Enter", "Backspace", "Shift"}
Keys == PrintableKeys \cup NamedKeys

\* key.length === 1
IsSingleChar(key) == key \in PrintableKeys

----------------------------------------------------------------------------
(* Data the pages are fed *)

\* the words generateRandomText draws from (a two-word stand-in for the corpus)
CommonWords == {<<"a">>, <<"a", "b">>}

\* generateRandomText(count): count words drawn independently from the corpus,
\* cut to MaxWords words
GenerateRandomText(count) ==
    [1..(IF count < MaxWords THEN count ELSE MaxWords) -> CommonWords]

\* the formatted page's built-in sample: a line, a line break and an indented
\* line (the source's sample has the same shape, "...{\n\tif ...")
SampleCode == <<"b", NEWLINE, TAB, "a">>

\* the documents of the document store: id and (trimmed) content
Documents == {[id |-> 1, content |-> <<"a", TAB, "b">>]}

\* filter.words.filters and filter.time.filters
WordFilters == <<10, 25, 50, 100, 200>>
TimeFilters == <<15, 30, 60, 120, 130>>
\* the filter buttons the model presses
PressedWordFilters == {WordFilters[1]}
PressedTimeFilters == {TimeFilters[1]}

\* document.content.trim().split(/(\s+)/).filter(nonblank).map(trim):
\* the maximal runs of non-whitespace characters, in order
RECURSIVE SplitWords(_, _)
SplitWords(s, cur) ==
    IF s = <<>> THEN (IF cur = <<>> THEN <<>> ELSE <<cur>>)
    ELSE IF IsWhitespace(Head(s))
         THEN (IF cur = <<>> THEN <<>> ELSE <<cur>>) \o SplitWords(Tail(s), <<>>)
         ELSE SplitWords(Tail(s), Append(cur, Head(s)))

----------------------------------------------------------------------------
(* custom-practice-store.ts.  document is a document id, 0 for null;       *)
(* customText carries its JavaScript type, an array of words or a string.  *)

initialState ==
    [isCustomPractice |-> FALSE, document |-> 0,
     customText |-> [kind |-> "array", val |-> <<>>], isFormattedText |-> FALSE]

startCustomPractice(doc) ==
    [isCustomPractice |-> TRUE, document |-> doc.id,
     customText |-> [kind |-> "array", val |-> SplitWords(doc.content, <<>>)],
     isFormattedText |-> FALSE]

startCustomPracticeFormatted(doc) ==
    [isCustomPractice |-> TRUE, document |-> doc.id,
     customText |-> [kind |-> "string", val |-> doc.content],
     isFormattedText |-> TRUE]

\* the id of the mock document startCustomPracticeWithText makes up
\* ('custom-' + Date.now()): an id the document store never issues
MockDocumentId == MaxDocuments + 1

startCustomPracticeWithText(text) ==
    [isCustomPractice |-> TRUE, document |-> MockDocumentId,
     customText |-> [kind |-> "string", val |-> text],
     isFormattedText |-> TRUE]

\* the subscription to documentStore.documents: the state after the store's
\* documents became docs
DocumentsChanged(state, docs) ==
    IF /\ state.isCustomPractice
       /\ state.document # 0
       /\ ~\E i \in 1..Len(docs) : docs[i].id = state.document
    THEN initialState ELSE state

----------------------------------------------------------------------------
(* document-store.ts.  issued counts the ids crypto.randomUUID() has given *)
(* to documents: the next document gets the id issued + 1.                 *)

EmptyStore == [documents |-> <<>>, performances |-> <<>>, issued |-> 0]

addDocument(store, content) ==
    [store EXCEPT !.documents = Append(@, [id |-> store.issued + 1,
                                           content |-> content]),
                  !.issued = @ + 1]

updateDocument(store, id, content) ==
    [store EXCEPT !.documents =
        [i \in 1..Len(@) |->
            IF @[i].id = id THEN [@[i] EXCEPT !.content = content] ELSE @[i]]]

\* deleteDocument leaving the document's performance records behind
deleteDocument_KeepsPerformances(store, id) ==
    LET Other(doc) == doc.id # id
    IN [store EXCEPT !.documents = SelectSeq(@, Other)]

deleteDocument(store, id) ==
    LET Other(doc) == doc.id # id
        OfOther(perf) == perf.documentId # id
    IN [store EXCEPT !.documents = SelectSeq(@, Other),
                     !.performances = SelectSeq(@, OfOther)]

\* addPerformance; summary is the record the page hands over
addPerformance(store, summary) ==
    [store EXCEPT !.performances = Append(@, summary)]

\* a store that was given the documents docs, in the order of their ids
RECURSIVE StoreHolding(_)
StoreHolding(docs) ==
    IF docs = {} THEN EmptyStore
    ELSE LET last == CHOOSE d \in docs : \A e \in docs : e.id <= d.id
             rest == StoreHolding(docs \ {last})
         IN [rest EXCEPT !.documents = Append(@, last), !.issued = last.id]

\* documentStore.addPerformance as the pages call it: the record handed over
PerformanceOf(cps, gs) ==
    [documentId |-> cps.document, wpm |-> gs.wpm, accuracy |-> gs.accuracy,
     correctChars |-> gs.correctChars, totalChars |-> gs.totalChars,
     timeElapsed |-> gs.timeElapsed]

\* the save at the end of either page's stopGame
SavePerformance(w) ==
    IF w.cps.isCustomPractice /\ w.cps.document # 0
    THEN [w EXCEPT !.calls = Append(@, PerformanceOf(w.cps, w.gs))]
    ELSE w

----------------------------------------------------------------------------
(* The word page *)

WordInitialGameStates ==
    [currentText |-> <<>>, currentWordIndex |-> 0, userInput |-> <<>>,
     accuracy |-> 100, wpm |-> 0, correctChars |-> 0, totalChars |-> 0,
     timeElapsed |-> 0, timeElapsedMode |-> 15, totalGenerateWords |-> 25,
     mode |-> "words", isPlaying |-> FALSE, isFinish |-> FALSE,
     isPending |-> TRUE]

EmptyInputs(text) == [i \in 1..Len(text) |-> <<>>]

WordUpdateWPM(w) ==
    LET g == w.gs
        seconds == IF g.mode = "time" THEN g.timeElapsedMode - g.timeElapsed
                   ELSE g.timeElapsed
    IN [w EXCEPT !.gs.wpm =
            IF seconds > 0 THEN RoundDiv(12 * g.correctChars, seconds) ELSE 0]

\* initGame; rnd is what generateRandomText returns if it is called
WordInitGame(w, rnd) ==
    LET custom == /\ w.cps.isCustomPractice
                  /\ w.cps.customText.kind = "array"
                  /\ Len(w.cps.customText.val) > 0
        text == IF custom THEN w.cps.customText.val ELSE rnd
        g1 == [w.gs EXCEPT !.isPlaying = FALSE, !.isFinish = FALSE,
                           !.isPending = TRUE, !.currentWordIndex = 0,
                           !.correctChars = 0, !.totalChars = 0,
                           !.accuracy = 100, !.wpm = 0]
        g2 == IF custom
              THEN [g1 EXCEPT !.currentText = text, !.timeElapsed = 0,
                              !.mode = "words"]
              ELSE IF g1.mode = "words"
              THEN [g1 EXCEPT !.currentText = text, !.timeElapsed = 0]
              ELSE [g1 EXCEPT !.currentText = text,
                              !.timeElapsed = g1.timeElapsedMode]
    IN [w EXCEPT !.gs = [g2 EXCEPT !.userInput = EmptyInputs(text)]]

\* the count initGame passes to generateRandomText
WordInitCount(g) == IF g.mode = "words" THEN g.totalGenerateWords ELSE 100

\* startGame forcing the session into words mode
WordStartGame_ForcesWords(w) ==
    [w EXCEPT !.gs.isPending = FALSE, !.gs.isPlaying = TRUE, !.timer = TRUE,
              !.ticks = 0, !.gs.mode = "words"]

\* startGame, with startTimer
WordStartGame(w) ==
    [w EXCEPT !.gs.isPending = FALSE, !.gs.isPlaying = TRUE, !.timer = TRUE,
              !.ticks = 0]

\* stopGame returning the session to pending instead of finishing it
WordStopGame_BackToPending(w) ==
    SavePerformance([w EXCEPT !.gs.isPlaying = FALSE, !.gs.isFinish = FALSE,
                              !.gs.isPending = TRUE, !.timer = FALSE])

\* stopGame, with stopTimer and the save
WordStopGame(w) ==
    SavePerformance([w EXCEPT !.gs.isPlaying = FALSE, !.gs.isFinish = TRUE,
                              !.gs.isPending = FALSE, !.timer = FALSE])

\* updateAccuracy without the || 100 fallback
WordUpdateAccuracy_NoFallback(w) ==
    [w EXCEPT !.gs.accuracy = JsRound(100 * w.gs.correctChars, w.gs.totalChars)]

\* updateAccuracy: NaN || 100 and 0 || 100 both give 100
WordUpdateAccuracy(w) ==
    LET rounded == JsRound(100 * w.gs.correctChars, w.gs.totalChars)
    IN [w EXCEPT !.gs.accuracy =
            IF rounded \in {NaN, 0} THEN 100 ELSE rounded]

\* the space branch counting the separator as a typed character
WordSpace_CountsSeparator(w) ==
    LET g == w.gs
    IN IF g.currentWordIndex < Len(g.currentText) - 1
       THEN [w EXCEPT !.gs.currentWordIndex = @ + 1, !.gs.totalChars = @ + 1]
       ELSE IF g.mode = "words" THEN WordStopGame(w) ELSE w

\* the space branch of onHandleUserInputKeyDown
WordSpace(w) ==
    LET g == w.gs
    IN IF g.currentWordIndex < Len(g.currentText) - 1
       THEN [w EXCEPT !.gs.currentWordIndex = @ + 1]
       ELSE IF g.mode = "words" THEN WordStopGame(w) ELSE w

\* WordPrintable judging the typed character against the next target
\* character instead of the one at its own offset
WordPrintable_OffByOne(w, key) ==
    LET g == w.gs
        i == g.currentWordIndex
        currentWord == g.currentText[i + 1]
        currentInput == Append(g.userInput[i + 1], key)
        w1 == [w EXCEPT !.gs.userInput[i + 1] = currentInput,
                        !.gs.totalChars = @ + 1]
        w2 == IF /\ g.mode = "words"
                 /\ i = Len(g.userInput) - 1
                 /\ Len(g.currentText[i + 1]) = Len(currentInput)
              THEN WordStopGame(w1) ELSE w1
    IN IF /\ Len(currentInput) <= Len(currentWord)
          /\ key = CharAt(currentWord, Len(currentInput))
       THEN [w2 EXCEPT !.gs.correctChars = @ + 1]
       ELSE w2

\* WordPrintable counting a character typed beyond the word's end as
\* correct when it repeats the word's last character
WordPrintable_CountsOverflow(w, key) ==
    LET g == w.gs
        i == g.currentWordIndex
        currentWord == g.currentText[i + 1]
        currentInput == Append(g.userInput[i + 1], key)
        w1 == [w EXCEPT !.gs.userInput[i + 1] = currentInput,
                        !.gs.totalChars = @ + 1]
        w2 == IF /\ g.mode = "words"
                 /\ i = Len(g.userInput) - 1
                 /\ Len(g.currentText[i + 1]) = Len(currentInput)
              THEN WordStopGame(w1) ELSE w1
    IN IF key = CharAt(currentWord,
                       IF Len(currentInput) <= Len(currentWord)
                       THEN Len(currentInput) - 1 ELSE Len(currentWord) - 1)
       THEN [w2 EXCEPT !.gs.correctChars = @ + 1]
       ELSE w2

\* the printable branch: append, count, stop on a full last word, then judge
WordPrintable(w, key) ==
    LET g == w.gs
        i == g.currentWordIndex
        currentWord == g.currentText[i + 1]
        currentInput == Append(g.userInput[i + 1], key)
        w1 == [w EXCEPT !.gs.userInput[i + 1] = currentInput,
                        !.gs.totalChars = @ + 1]
        w2 == IF /\ g.mode = "words"
                 /\ i = Len(g.userInput) - 1
                 /\ Len(g.currentText[i + 1]) = Len(currentInput)
              THEN WordStopGame(w1) ELSE w1
    IN IF /\ Len(currentInput) <= Len(currentWord)
          /\ key = CharAt(currentWord, Len(currentInput) - 1)
       THEN [w2 EXCEPT !.gs.correctChars = @ + 1]
       ELSE w2

\* the Backspace branch
\* a Backspace that leaves correctChars alone
WordBackspace_KeepsCorrect(w) ==
    LET g == w.gs
        i == g.currentWordIndex
        currentInput == g.userInput[i + 1]
    IN IF Len(currentInput) > 0
       THEN [w EXCEPT !.gs.userInput[i + 1] = DropLast(currentInput),
                      !.gs.totalChars = @ - 1]
       ELSE IF i > 0 THEN [w EXCEPT !.gs.currentWordIndex = @ - 1] ELSE w

WordBackspace(w) ==
    LET g == w.gs
        i == g.currentWordIndex
        currentWord == g.currentText[i + 1]
        currentInput == g.userInput[i + 1]
    IN IF Len(currentInput) > 0
       THEN LET lastChar == CharAt(currentInput, Len(currentInput) - 1)
                expectedChar == CharAt(currentWord, Len(currentInput) - 1)
                w1 == [w EXCEPT !.gs.userInput[i + 1] = DropLast(currentInput),
                                !.gs.totalChars = @ - 1]
            IN IF lastChar = expectedChar
               THEN [w1 EXCEPT !.gs.correctChars = @ - 1] ELSE w1
       ELSE IF i > 0 THEN [w EXCEPT !.gs.currentWordIndex = @ - 1] ELSE w

\* onHandleUserInputKeyDown spending the first key on starting the game
WordKeyDown_StartOnly(w, key) ==
    IF ~w.gs.isPlaying /\ w.gs.isPending THEN WordStartGame(w)
    ELSE IF ~w.gs.isPlaying THEN w
    ELSE WordUpdateAccuracy(
             IF key = SPACE THEN WordSpace(w)
             ELSE IF IsSingleChar(key) THEN WordPrintable(w, key)
             ELSE IF key = "Backspace" THEN WordBackspace(w)
             ELSE w)

\* onHandleUserInputKeyDown
WordKeyDown(w, key) ==
    LET w1 == IF ~w.gs.isPlaying /\ w.gs.isPending THEN WordStartGame(w) ELSE w
    IN IF ~w1.gs.isPlaying THEN w1
       ELSE WordUpdateAccuracy(
                IF key = SPACE THEN WordSpace(w1)
                ELSE IF IsSingleChar(key) THEN WordPrintable(w1, key)
                ELSE IF key = "Backspace" THEN WordBackspace(w1)
                ELSE w1)

\* the interval callback counting up in both modes
WordTick_AlwaysUp(w) ==
    WordUpdateWPM([w EXCEPT !.ticks = @ + 1, !.gs.timeElapsed = @ + 1])

\* the interval callback of startTimer
\* a tick that counts down in both modes
WordTick_AlwaysDown(w) ==
    WordUpdateWPM([w EXCEPT !.ticks = @ + 1, !.gs.timeElapsed = @ - 1])

WordTick(w) ==
    WordUpdateWPM([w EXCEPT !.ticks = @ + 1,
                            !.gs.timeElapsed =
                                IF w.gs.mode = "time" THEN @ - 1 ELSE @ + 1])

\* the $effect ending a time-mode game one second late
WordEffect_Late(w) ==
    IF w.gs.mode = "time" /\ w.gs.timeElapsed = -1 /\ w.gs.isPlaying
    THEN WordStopGame(w) ELSE w

\* the $effect that ends a time-mode game at zero; Svelte runs it after the
\* handler that changed the state, before the next event
WordEffect(w) ==
    IF w.gs.mode = "time" /\ w.gs.timeElapsed = 0 /\ w.gs.isPlaying
    THEN WordStopGame(w) ELSE w

\* filter.svelte updateGameState; rnd is what generateRandomText returns
updateGameState(w, rnd) ==
    LET g == w.gs
    IN [w EXCEPT !.gs = [g EXCEPT
            !.currentText = rnd,
            !.timeElapsed = IF g.mode = "words" THEN 0 ELSE g.timeElapsedMode,
            !.userInput = EmptyInputs(rnd), !.currentWordIndex = 0,
            !.correctChars = 0, !.totalChars = 0, !.accuracy = 100,
            !.wpm = 0]]

\* the count updateGameState passes to generateRandomText
FilterCount(g) == IF g.mode = "words" THEN g.totalGenerateWords ELSE 200

\* filter.svelte selectFilter, up to its call of updateGameState
selectFilter(w, type) ==
    IF type = "words"
    THEN [w EXCEPT !.gs.mode = type, !.gs.totalGenerateWords = WordFilters[1]]
    ELSE [w EXCEPT !.gs.mode = type, !.gs.timeElapsedMode = TimeFilters[1]]

----------------------------------------------------------------------------
(* The formatted page *)

FormattedInitialGameStates ==
    [currentText |-> <<>>, currentCharIndex |-> 0, userInput |-> <<>>,
     accuracy |-> 100, wpm |-> 0, correctChars |-> 0, totalChars |-> 0,
     timeElapsed |-> 0, timeElapsedMode |-> 15, totalGenerateWords |-> 25,
     mode |-> "words", isPlaying |-> FALSE, isFinish |-> FALSE,
     isPending |-> TRUE]

\* the number of spaces userInput ends with (the loops of
\* handleCharacterInput and handleBackspace)
RECURSIVE TrailingSpaces(_)
TrailingSpaces(s) ==
    IF s # <<>> /\ s[Len(s)] = SPACE THEN 1 + TrailingSpaces(DropLast(s)) ELSE 0

\* initGame leaving the counters of the previous session in place
FormattedInitGame_KeepsCounts(w) ==
    LET custom == /\ w.cps.isCustomPractice
                  /\ w.cps.customText.val # <<>>
                  /\ w.cps.customText.kind = "string"
    IN [w EXCEPT !.timer = FALSE,
                 !.gs = [@ EXCEPT
                    !.currentText = IF custom THEN w.cps.customText.val
                                    ELSE SampleCode,
                    !.currentCharIndex = 0, !.userInput = <<>>,
                    !.wpm = 0, !.timeElapsed = 0, !.isPlaying = FALSE,
                    !.isFinish = FALSE, !.isPending = TRUE]]

\* initGame, with its clearInterval
FormattedInitGame(w) ==
    LET custom == /\ w.cps.isCustomPractice
                  /\ w.cps.customText.val # <<>>
                  /\ w.cps.customText.kind = "string"
    IN [w EXCEPT !.timer = FALSE,
                 !.gs = [@ EXCEPT
                    !.currentText = IF custom THEN w.cps.customText.val
                                    ELSE SampleCode,
                    !.currentCharIndex = 0, !.userInput = <<>>,
                    !.accuracy = 100, !.wpm = 0, !.correctChars = 0,
                    !.totalChars = 0, !.timeElapsed = 0, !.isPlaying = FALSE,
                    !.isFinish = FALSE, !.isPending = TRUE]]

\* startGame, with its setInterval
\* a startGame that leaves isPending set
FormattedStartGame_KeepsPending(w) ==
    [w EXCEPT !.gs.isPlaying = TRUE,
              !.gs.timeElapsed = w.gs.timeElapsedMode, !.timer = TRUE,
              !.ticks = 0]

FormattedStartGame(w) ==
    [w EXCEPT !.gs.isPlaying = TRUE, !.gs.isPending = FALSE,
              !.gs.timeElapsed = w.gs.timeElapsedMode, !.timer = TRUE,
              !.ticks = 0]

FormattedUpdateWPM(w) ==
    LET g == w.gs
        seconds == IF g.mode = "time" THEN g.timeElapsedMode - g.timeElapsed
                   ELSE g.timeElapsed
    IN [w EXCEPT !.gs.wpm =
            IF seconds > 0 THEN RoundDiv(12 * g.correctChars, seconds) ELSE 0]

\* stopGame: flags, clearInterval, updateWPM, then the save
FormattedStopGame(w) ==
    SavePerformance(FormattedUpdateWPM(
        [w EXCEPT !.gs.isPlaying = FALSE, !.gs.isFinish = TRUE,
                  !.timer = FALSE]))

FormattedUpdateAccuracy(w) ==
    [w EXCEPT !.gs.accuracy =
        IF w.gs.totalChars > 0
        THEN RoundDiv(100 * w.gs.correctChars, w.gs.totalChars) ELSE 100]

\* the closing check of handleTabInput and handleCharacterInput
StopIfTextDone(w) ==
    IF w.gs.currentCharIndex >= Len(w.gs.currentText)
    THEN FormattedStopGame(w) ELSE w

\* handleCharacterInput holding the cursor on a mismatch
handleCharacterInput_HoldOnMismatch(w, inputChar) ==
    LET g == w.gs
        expectedChar == CharAt(g.currentText, g.currentCharIndex)
        userInput == Append(g.userInput, inputChar)
        w1 == [w EXCEPT !.gs.userInput = userInput, !.gs.totalChars = @ + 1]
    IN StopIfTextDone(
           IF inputChar = expectedChar
           THEN [w1 EXCEPT !.gs.currentCharIndex = @ + 1,
                           !.gs.correctChars = @ + 1]
           ELSE w1)

handleCharacterInput(w, inputChar) ==
    LET g == w.gs
        expectedChar == CharAt(g.currentText, g.currentCharIndex)
        userInput == Append(g.userInput, inputChar)
        w1 == [w EXCEPT !.gs.userInput = userInput, !.gs.totalChars = @ + 1]
        trailingSpaces == TrailingSpaces(userInput)
        \* <<isCorrect, whether currentCharIndex advances>>
        judged ==
            IF inputChar = expectedChar THEN <<TRUE, TRUE>>
            ELSE IF expectedChar = TAB /\ inputChar = SPACE
                 THEN IF trailingSpaces = 4 THEN <<TRUE, TRUE>>
                      ELSE IF trailingSpaces < 4 THEN <<TRUE, FALSE>>
                      ELSE <<FALSE, FALSE>>
                 ELSE <<FALSE, TRUE>>
        w2 == IF judged[2] THEN [w1 EXCEPT !.gs.currentCharIndex = @ + 1]
              ELSE w1
        w3 == IF judged[1] THEN [w2 EXCEPT !.gs.correctChars = @ + 1] ELSE w2
    IN StopIfTextDone(w3)

\* handleTabInput counting an accepted Tab as one correct character
handleTabInput_OneCorrect(w) ==
    LET expectedChar == CharAt(w.gs.currentText, w.gs.currentCharIndex)
        fourSpaces == <<SPACE, SPACE, SPACE, SPACE>>
        typed ==
            IF expectedChar = TAB
            THEN [w EXCEPT !.gs.userInput = @ \o fourSpaces,
                           !.gs.totalChars = @ + 4,
                           !.gs.correctChars = @ + 1,
                           !.gs.currentCharIndex = @ + 1]
            ELSE handleCharacterInput(
                     handleCharacterInput(
                         handleCharacterInput(
                             handleCharacterInput(w, SPACE), SPACE), SPACE),
                     SPACE)
    IN StopIfTextDone(typed)

\* a Tab on an expected tab counted as one typed character
handleTabInput_CountsOne(w) ==
    LET expectedChar == CharAt(w.gs.currentText, w.gs.currentCharIndex)
        fourSpaces == <<SPACE, SPACE, SPACE, SPACE>>
        typed ==
            IF expectedChar = TAB
            THEN [w EXCEPT !.gs.userInput = @ \o fourSpaces,
                           !.gs.totalChars = @ + 1,
                           !.gs.correctChars = @ + 4,
                           !.gs.currentCharIndex = @ + 1]
            ELSE handleCharacterInput(
                     handleCharacterInput(
                         handleCharacterInput(
                             handleCharacterInput(w, SPACE), SPACE), SPACE),
                     SPACE)
    IN StopIfTextDone(typed)

handleTabInput(w) ==
    LET expectedChar == CharAt(w.gs.currentText, w.gs.currentCharIndex)
        fourSpaces == <<SPACE, SPACE, SPACE, SPACE>>
        typed ==
            IF expectedChar = TAB
            THEN [w EXCEPT !.gs.userInput = @ \o fourSpaces,
                           !.gs.totalChars = @ + 4,
                           !.gs.correctChars = @ + 4,
                           !.gs.currentCharIndex = @ + 1]
            ELSE handleCharacterInput(
                     handleCharacterInput(
                         handleCharacterInput(
                             handleCharacterInput(w, SPACE), SPACE), SPACE),
                     SPACE)
    IN StopIfTextDone(typed)

handleBackspace(w) ==
    LET g == w.gs
    IN IF Len(g.userInput) > 0
       THEN LET removedChar == g.userInput[Len(g.userInput)]
                userInput == DropLast(g.userInput)
                w1 == [w EXCEPT !.gs.userInput = userInput,
                                !.gs.totalChars = Max(0, @ - 1)]
                currentExpectedChar == CharAt(g.currentText, g.currentCharIndex)
                previousExpectedChar ==
                    IF g.currentCharIndex > 0
                    THEN CharAt(g.currentText, g.currentCharIndex - 1)
                    ELSE ""
                trailingSpaces == TrailingSpaces(userInput)
                uncount == [w1 EXCEPT !.gs.correctChars = Max(0, @ - 1)]
                regular ==
                    [(IF removedChar = previousExpectedChar THEN uncount
                      ELSE w1)
                        EXCEPT !.gs.currentCharIndex = Max(0, @ - 1)]
            IN IF removedChar = SPACE
               THEN IF currentExpectedChar = TAB THEN uncount
                    ELSE IF previousExpectedChar = TAB /\ trailingSpaces = 3
                         THEN [uncount EXCEPT
                                  !.gs.currentCharIndex = Max(0, @ - 1)]
                         ELSE regular
               ELSE regular
       ELSE w

\* FormattedKeyDown without the return that drops keys when not playing
FormattedKeyDown_NoGuard(w, key) ==
    LET w1 == IF ~w.gs.isPlaying /\ w.gs.isPending
              THEN FormattedStartGame(w) ELSE w
    IN FormattedUpdateAccuracy(
           IF key = "Tab" THEN handleTabInput(w1)
           ELSE IF key = "Enter" THEN handleCharacterInput(w1, NEWLINE)
           ELSE IF IsSingleChar(key) THEN handleCharacterInput(w1, key)
           ELSE IF key = "Backspace" THEN handleBackspace(w1)
           ELSE w1)

\* onHandleUserInputKeyDown
FormattedKeyDown(w, key) ==
    LET w1 == IF ~w.gs.isPlaying /\ w.gs.isPending
              THEN FormattedStartGame(w) ELSE w
    IN IF ~w1.gs.isPlaying THEN w1
       ELSE FormattedUpdateAccuracy(
                IF key = "Tab" THEN handleTabInput(w1)
                ELSE IF key = "Enter" THEN handleCharacterInput(w1, NEWLINE)
                ELSE IF IsSingleChar(key) THEN handleCharacterInput(w1, key)
                ELSE IF key = "Backspace" THEN handleBackspace(w1)
                ELSE w1)

\* the interval callback of startGame
FormattedTick(w) ==
    IF w.gs.mode = "time"
    THEN LET w1 == FormattedUpdateWPM([w EXCEPT !.ticks = @ + 1,
                                                !.gs.timeElapsed = @ - 1])
         IN IF w1.gs.timeElapsed <= 0 THEN FormattedStopGame(w1) ELSE w1
    ELSE FormattedUpdateWPM([w EXCEPT !.ticks = @ + 1,
                                      !.gs.timeElapsed = @ + 1])

\* the page's $effect, run after the handler that changed the state
FormattedEffect(w) ==
    IF w.gs.mode = "time" /\ w.gs.timeElapsed = 0 /\ w.gs.isPlaying
    THEN FormattedStopGame(w) ELSE w

----------------------------------------------------------------------------
(* utils/progress.ts.  progressPercentage has one decimal in the code; here *)
(* it is held in tenths of a percent (733 for 73.3).                       *)

\* currentText.reduce((total, word) => total + word.length, 0)
RECURSIVE SumLen(_)
SumLen(text) == IF text = <<>> THEN 0 ELSE Len(Head(text)) + SumLen(Tail(text))

RECURSIVE SumSeq(_)
SumSeq(ns) == IF ns = <<>> THEN 0 ELSE Head(ns) + SumSeq(Tail(ns))

\* userInput[wordIndex] || ''
InputAt(userInput, i) == IF i <= Len(userInput) THEN userInput[i] ELSE <<>>

\* the loop counting every typed position of the word, matching or not
MatchingChars_AnyChar(word, input) ==
    Cardinality({i \in 1..Len(word) : i <= Len(input)})

\* the loop over charIndex < Math.min(word.length, input.length)
MatchingChars(word, input) ==
    Cardinality({i \in 1..Len(word) : i <= Len(input) /\ word[i] = input[i]})

\* the completed-word test looking at the typed length only
WordCompleted_LengthOnly(word, input) == Len(input) >= Len(word)

\* input.length >= word.length && wordCorrectChars === word.length
WordCompleted(word, input) ==
    Len(input) >= Len(word) /\ MatchingChars(word, input) = Len(word)

\* the value returned for an empty text, and the store's reset value
EmptyProgress ==
    [progressPercentage |-> 0, wordsCompleted |-> 0, totalWords |-> 0,
     correctChars |-> 0, totalChars |-> 0, accuracy |-> 100,
     status |-> "start"]

\* the thresholds taken as strict lower bounds
getProgressStatus_Strict(progressPercentage) ==
    IF progressPercentage > 1000 THEN "complete"
    ELSE IF progressPercentage > 750 THEN "high"
    ELSE IF progressPercentage > 500 THEN "medium"
    ELSE IF progressPercentage > 250 THEN "low"
    ELSE "start"

\* getProgressStatus(progressPercentage), the percentage in tenths
getProgressStatus(progressPercentage) ==
    IF progressPercentage >= 1000 THEN "complete"
    ELSE IF progressPercentage >= 750 THEN "high"
    ELSE IF progressPercentage >= 500 THEN "medium"
    ELSE IF progressPercentage >= 250 THEN "low"
    ELSE "start"

calculateTypingProgress(currentText, userInput, currentWordIndex) ==
    IF Len(currentText) = 0 THEN EmptyProgress
    ELSE
    LET totalChars == SumLen(currentText)
        words == 1..Len(currentText)
        matches == [i \in words |->
                       MatchingChars(currentText[i], InputAt(userInput, i))]
        correctChars ==
            SumSeq([i \in words |->
                       IF i - 1 <= currentWordIndex THEN matches[i] ELSE 0])
        wordsCompleted ==
            Cardinality({i \in words :
                /\ i - 1 < currentWordIndex
                /\ WordCompleted(currentText[i], InputAt(userInput, i))})
        totalTypedChars ==
            SumSeq([i \in words |-> Len(InputAt(userInput, i))])
        progressPercentage ==
            IF totalChars > 0 THEN RoundDiv(1000 * correctChars, totalChars)
            ELSE 0
        accuracy ==
            IF totalTypedChars > 0
            THEN RoundDiv(100 * correctChars, totalTypedChars) ELSE 100
        status ==
            IF progressPercentage >= 1000 THEN "complete"
            ELSE IF progressPercentage >= 750 THEN "high"
            ELSE IF progressPercentage >= 500 THEN "medium"
            ELSE IF progressPercentage >= 250 THEN "low"
            ELSE "start"
    IN [progressPercentage |-> progressPercentage,
        wordsCompleted |-> wordsCompleted, totalWords |-> Len(currentText),
        correctChars |-> correctChars, totalChars |-> totalChars,
        accuracy |-> accuracy, status |-> status]

\* calculateProgressPercentage returning the record's accuracy field
calculateProgressPercentage_AsAccuracy(currentText, userInput, currentWordIndex) ==
    calculateTypingProgress(currentText, userInput,
                            currentWordIndex).accuracy

calculateProgressPercentage(currentText, userInput, currentWordIndex) ==
    calculateTypingProgress(currentText, userInput,
                            currentWordIndex).progressPercentage

\* the texts, inputs and cursors the progress utilities are given: every
\* text of up to MaxProgressWords common words with, per word, nothing, a
\* prefix, a wrong character, the word, a mismatch or an overflow typed
ProgressInputs ==
    {<<>>, <<"a">>, <<"b">>, <<"a", "b">>, <<"a", "a">>, <<"a", "b", "a">>}

ProgressTexts == UNION {[1..n -> CommonWords] : n \in 0..MaxProgressWords}

TypedArgs ==
    UNION {{<<text, input, index>> :
                input \in [1..Len(text) -> ProgressInputs],
                index \in 0..Len(text)} : text \in ProgressTexts}

\* the words of the documented examples
HelloW == <<"h", "e", "l", "l", "o">>
HxlloW == <<"h", "x", "l", "l", "o">>
WorldW == <<"w", "o", "r", "l", "d">>
WorW == <<"w", "o", "r">>
WoW == <<"w", "o">>
TestW == <<"t", "e", "s", "t">>

\* the calls of progress.test.ts (Tests 1 and 4) and of the @example
DocumentedArgs ==
    {<<<<HelloW, WorldW>>, <<HelloW, WorW>>, 1>>,
     <<<<HelloW, WorldW>>, <<HxlloW, WoW>>, 1>>,
     <<<<HelloW, WorldW, TestW>>, <<HelloW, WorW, <<>>>>, 1>>}

\* createProgressStore: currentProgress, with the arguments update is
\* called with
NoProgress == [args |-> <<>>, updated |-> FALSE, progress |-> EmptyProgress]

ProgressInit ==
    /\ page = "none"
    /\ gameStates = WordInitialGameStates
    /\ customPracticeState = initialState
    /\ recorded = <<>>
    /\ timerInterval = FALSE
    /\ ticks = 0
    /\ documentStore = EmptyStore
    /\ \E args \in TypedArgs \cup DocumentedArgs :
           progressStore = [NoProgress EXCEPT !.args = args]

\* update(currentText, userInput, currentWordIndex)
ProgressUpdate ==
    /\ progressStore' =
           [progressStore EXCEPT
               !.updated = TRUE,
               !.progress = calculateTypingProgress(
                   progressStore.args[1], progressStore.args[2],
                   progressStore.args[3])]
    /\ UNCHANGED <<pageVars, documentStore>>

\* reset()
ProgressReset ==
    /\ progressStore' =
           [progressStore EXCEPT !.updated = FALSE,
                                 !.progress = EmptyProgress]
    /\ UNCHANGED <<pageVars, documentStore>>

ProgressNext == ProgressUpdate \/ ProgressReset

ProgressSpec == ProgressInit /\ [][ProgressNext]_vars

----------------------------------------------------------------------------
(* The state machine: one page is mounted at a time; the store outlives it *)

World ==
    [gs |-> gameStates, cps |-> customPracticeState, calls |-> recorded,
     timer |-> timerInterval, ticks |-> ticks]

Become(w) ==
    /\ gameStates' = w.gs
    /\ customPracticeState' = w.cps
    /\ recorded' = w.calls
    /\ timerInterval' = w.timer
    /\ ticks' = w.ticks
    /\ UNCHANGED <<progressStore, documentStore>>

\* a component instance as constructed, before its first initGame
NewComponent(gs, cps) ==
    [gs |-> gs, cps |-> cps, calls |-> <<>>, timer |-> FALSE, ticks |-> 0]

\* the word page mounted (onMount runs initGame) under store value cps
MountedWord(cps) ==
    {WordInitGame(NewComponent(WordInitialGameStates, cps), rnd) :
        rnd \in GenerateRandomText(WordInitCount(WordInitialGameStates))}

\* the formatted page mounted (its script ends with initGame())
MountedFormatted(cps) ==
    FormattedInitGame(NewComponent(FormattedInitialGameStates, cps))

\* a new session starts a new log of addPerformance calls and has had no
\* tick
NewSession(w) == [w EXCEPT !.calls = <<>>, !.ticks = 0]

\* initGame of the word page as a button runs it
WordReinit(w) ==
    {WordEffect(NewSession(WordInitGame(w, rnd))) :
        rnd \in GenerateRandomText(WordInitCount(w.gs))}

Init ==
    /\ customPracticeState = initialState
    /\ recorded = <<>>
    /\ timerInterval = FALSE
    /\ ticks = 0
    /\ progressStore = NoProgress
    /\ documentStore = StoreHolding(Documents)
    /\ \/ page = "word" /\ \E w \in MountedWord(initialState) : gameStates = w.gs
       \/ page = "formatted" /\ gameStates = MountedFormatted(initialState).gs

(* Navigation ------------------------------------------------------------ *)

\* documents page: handleStartPractice(document), then goto('/')
HandleStartPractice ==
    \E doc \in Documents : \E w \in MountedWord(startCustomPractice(doc)) :
        page' = "word" /\ Become(w)

\* documents page: handleStartFormattedPractice(document), then
\* goto('/formatted')
HandleStartFormattedPractice ==
    \E doc \in Documents :
        /\ page' = "formatted"
        /\ Become(MountedFormatted(startCustomPracticeFormatted(doc)))

\* client-side navigation to '/' (a link, the browser's history): the store
\* keeps its value
GotoWord ==
    \E w \in MountedWord(customPracticeState) : page' = "word" /\ Become(w)

\* client-side navigation to '/formatted'
GotoFormatted ==
    page' = "formatted" /\ Become(MountedFormatted(customPracticeState))

(* The word page ----------------------------------------------------------- *)

\* a keydown on the window; the bound on typed characters stops further typing
KeyDownWord ==
    /\ page = "word"
    /\ \E key \in Keys :
        /\ \/ gameStates.isFinish
           \/ ~IsSingleChar(key) \/ key = SPACE
           \/ gameStates.totalChars < MaxWordInput
        /\ Become(WordEffect(WordKeyDown(World, key)))
    /\ UNCHANGED page

\* the interval fires
TickWord ==
    /\ page = "word"
    /\ timerInterval
    /\ gameStates.mode = "time" \/ gameStates.timeElapsed < MaxTicks
    /\ Become(WordEffect(WordTick(World)))
    /\ UNCHANGED page

FilterShown ==
    /\ page = "word"
    /\ ~gameStates.isFinish
    /\ gameStates.isPending
    /\ ~customPracticeState.isCustomPractice

\* filter.svelte: the Words and Time buttons
SelectFilter ==
    /\ FilterShown
    /\ \E type \in {"words", "time"} :
        LET w == selectFilter(World, type)
        IN \E rnd \in GenerateRandomText(FilterCount(w.gs)) :
               Become(WordEffect(updateGameState(w, rnd)))
    /\ UNCHANGED page

\* filter.svelte: a word-count button
SelectWordCount ==
    /\ FilterShown
    /\ gameStates.mode = "words"
    /\ \E count \in PressedWordFilters :
        LET w == [World EXCEPT !.gs.totalGenerateWords = count]
        IN \E rnd \in GenerateRandomText(FilterCount(w.gs)) :
               Become(WordEffect(updateGameState(w, rnd)))
    /\ UNCHANGED page

\* filter.svelte: a duration button
SelectTime ==
    /\ FilterShown
    /\ gameStates.mode = "time"
    /\ \E seconds \in PressedTimeFilters :
        LET w == [World EXCEPT !.gs.timeElapsedMode = seconds]
        IN \E rnd \in GenerateRandomText(FilterCount(w.gs)) :
               Become(WordEffect(updateGameState(w, rnd)))
    /\ UNCHANGED page

\* "Restart Text": a new random text, nothing else
RestartTextWord ==
    /\ page = "word"
    /\ ~gameStates.isFinish
    /\ gameStates.isPending
    /\ gameStates.mode = "words"
    /\ ~customPracticeState.isCustomPractice
    /\ \E rnd \in GenerateRandomText(gameStates.totalGenerateWords) :
           Become(WordEffect([World EXCEPT !.gs.currentText = rnd]))
    /\ UNCHANGED page

\* "Restart Document": initGame
RestartDocument ==
    /\ page = "word"
    /\ ~gameStates.isFinish
    /\ gameStates.isPending
    /\ customPracticeState.isCustomPractice
    /\ \E w \in WordReinit(World) : Become(w)
    /\ UNCHANGED page

\* "Exit Custom Practice": clearCustomPractice(), initGame()
ExitCustomPracticeWord ==
    /\ page = "word"
    /\ ~gameStates.isFinish
    /\ gameStates.isPending
    /\ customPracticeState.isCustomPractice
    /\ \E w \in WordReinit([World EXCEPT !.cps = initialState]) : Become(w)
    /\ UNCHANGED page

\* "Practice Again": clearInterval(timerInterval), initGame()
PracticeAgainWord ==
    /\ page = "word"
    /\ gameStates.isFinish
    /\ customPracticeState.isCustomPractice
    /\ \E w \in WordReinit([World EXCEPT !.timer = FALSE]) : Become(w)
    /\ UNCHANGED page

\* "Try Random Text": clearCustomPractice(), clearInterval, initGame()
TryRandomText ==
    /\ page = "word"
    /\ gameStates.isFinish
    /\ customPracticeState.isCustomPractice
    /\ \E w \in WordReinit([World EXCEPT !.cps = initialState,
                                         !.timer = FALSE]) : Become(w)
    /\ UNCHANGED page

\* result.svelte "Restart Game": clearInterval(timerInterval), initGame()
ResetGame ==
    /\ page = "word"
    /\ gameStates.isFinish
    /\ ~customPracticeState.isCustomPractice
    /\ \E w \in WordReinit([World EXCEPT !.timer = FALSE]) : Become(w)
    /\ UNCHANGED page

(* The formatted page ------------------------------------------------------ *)

\* the characters a key adds to userInput
KeyWidth(key) ==
    IF key = "Tab" THEN 4
    ELSE IF key = "Enter" \/ IsSingleChar(key) THEN 1 ELSE 0

\* a keydown on the window; typing stops at the bound on userInput, and
\* once correctChars has outgrown totalChars (from there it grows without
\* bound)
KeyDownFormatted ==
    /\ page = "formatted"
    /\ \E key \in Keys :
        /\ \/ gameStates.isFinish
           \/ /\ Len(gameStates.userInput) + KeyWidth(key) <= MaxInput
              /\ gameStates.correctChars <= gameStates.totalChars
        /\ Become(FormattedEffect(FormattedKeyDown(World, key)))
    /\ UNCHANGED page

\* the interval fires
TickFormatted ==
    /\ page = "formatted"
    /\ timerInterval
    /\ \/ gameStates.mode = "time"
       \/ gameStates.timeElapsed - gameStates.timeElapsedMode < MaxTicks
    /\ Become(FormattedEffect(FormattedTick(World)))
    /\ UNCHANGED page

FormattedReinit(w) == FormattedEffect(NewSession(FormattedInitGame(w)))

\* "Restart Text": initGame
RestartTextFormatted ==
    /\ page = "formatted"
    /\ ~gameStates.isFinish
    /\ gameStates.isPending
    /\ Become(FormattedReinit(World))
    /\ UNCHANGED page

\* "Exit Custom Practice", shown until the game is finished:
\* clearCustomPractice(), initGame()
ExitCustomPracticeFormatted ==
    /\ page = "formatted"
    /\ ~gameStates.isFinish
    /\ customPracticeState.isCustomPractice
    /\ Become(FormattedReinit([World EXCEPT !.cps = initialState]))
    /\ UNCHANGED page

\* "Practice Again": clearInterval(timerInterval), initGame()
PracticeAgainFormatted ==
    /\ page = "formatted"
    /\ gameStates.isFinish
    /\ Become(FormattedReinit([World EXCEPT !.timer = FALSE]))
    /\ UNCHANGED page

\* "Try Another Code Sample": clearCustomPractice(), clearInterval,
\* initGame()
TryAnotherCodeSample ==
    /\ page = "formatted"
    /\ gameStates.isFinish
    /\ Become(FormattedReinit([World EXCEPT !.cps = initialState,
                                            !.timer = FALSE]))
    /\ UNCHANGED page

Next ==
    \/ HandleStartPractice
    \/ HandleStartFormattedPractice
    \/ GotoWord
    \/ GotoFormatted
    \/ KeyDownWord
    \/ TickWord
    \/ SelectFilter
    \/ SelectWordCount
    \/ SelectTime
    \/ RestartTextWord
    \/ RestartDocument
    \/ ExitCustomPracticeWord
    \/ PracticeAgainWord
    \/ TryRandomText
    \/ ResetGame
    \/ KeyDownFormatted
    \/ TickFormatted
    \/ RestartTextFormatted
    \/ ExitCustomPracticeFormatted
    \/ PracticeAgainFormatted
    \/ TryAnotherCodeSample

Spec == Init /\ [][Next]_vars

(* The formatted page practising a document without tabs ------------------ *)

\* a stored document whose content has no tab
PlainDocuments == {[id |-> 2, content |-> <<"a", SPACE, "b", NEWLINE, "a">>]}

\* the formatted page as handleStartFormattedPractice(document) and
\* goto('/formatted') leave it
PlainTextInit ==
    /\ page = "formatted"
    /\ progressStore = NoProgress
    /\ documentStore = StoreHolding(PlainDocuments)
    /\ \E doc \in PlainDocuments :
        LET w == MountedFormatted(startCustomPracticeFormatted(doc))
        IN /\ gameStates = w.gs
           /\ customPracticeState = w.cps
           /\ recorded = w.calls
           /\ timerInterval = w.timer
           /\ ticks = w.ticks

\* the page's handlers that keep the document
PlainTextNext ==
    \/ KeyDownFormatted
    \/ TickFormatted
    \/ RestartTextFormatted
    \/ PracticeAgainFormatted

PlainTextSpec == PlainTextInit /\ [][PlainTextNext]_vars

(* The stores under the document manager ----------------------------------- *)

\* the contents documents are given
DocContents == {<<"a">>, <<"a", TAB, "b">>}

\* the ids deleteDocument and updateDocument are called with
DocumentIds == 1..MockDocumentId

\* the stores as constructed, localStorage holding nothing
StoreInit ==
    /\ page = "none"
    /\ gameStates = WordInitialGameStates
    /\ customPracticeState = initialState
    /\ recorded = <<>>
    /\ timerInterval = FALSE
    /\ ticks = 0
    /\ progressStore = NoProgress
    /\ documentStore = EmptyStore

\* a change of the document store, followed by the custom-practice store's
\* subscription
StoreBecomes(store) ==
    /\ documentStore' = store
    /\ customPracticeState' =
           DocumentsChanged(customPracticeState, store.documents)
    /\ UNCHANGED <<page, gameStates, recorded, timerInterval, ticks,
                   progressStore>>

\* a change of the custom-practice store
PracticeBecomes(state) ==
    /\ customPracticeState' = state
    /\ UNCHANGED <<page, gameStates, recorded, timerInterval, ticks,
                   progressStore, documentStore>>

AddDocument ==
    /\ documentStore.issued < MaxDocuments
    /\ \E content \in DocContents :
           StoreBecomes(addDocument(documentStore, content))

UpdateDocument ==
    \E id \in DocumentIds, content \in DocContents :
        StoreBecomes(updateDocument(documentStore, id, content))

DeleteDocument ==
    \E id \in DocumentIds : StoreBecomes(deleteDocument(documentStore, id))

\* a page's stopGame saving the practised document's performance; the
\* performances store has no subscriber in the custom-practice store
AddPerformance ==
    /\ customPracticeState.isCustomPractice
    /\ customPracticeState.document # 0
    /\ Len(documentStore.performances) < MaxPerformances
    /\ documentStore' =
           addPerformance(documentStore,
                          PerformanceOf(customPracticeState, gameStates))
    /\ UNCHANGED <<pageVars, progressStore>>

\* "Practice" and "Practice (formatted)" on a listed document
StartCustomPractice ==
    \E i \in 1..Len(documentStore.documents) :
        \/ PracticeBecomes(startCustomPractice(documentStore.documents[i]))
        \/ PracticeBecomes(
               startCustomPracticeFormatted(documentStore.documents[i]))

StartCustomPracticeWithText ==
    \E text \in DocContents : PracticeBecomes(startCustomPracticeWithText(text))

ClearCustomPractice == PracticeBecomes(initialState)

StoreNext ==
    \/ AddDocument
    \/ UpdateDocument
    \/ DeleteDocument
    \/ AddPerformance
    \/ StartCustomPractice
    \/ StartCustomPracticeWithText
    \/ ClearCustomPractice

StoreSpec == StoreInit /\ [][StoreNext]_vars

----------------------------------------------------------------------------
(* Vocabulary of the properties *)

\* the phase the three flags encode
Phase(g) ==
    IF g.isFinish THEN "finished" ELSE IF g.isPlaying THEN "playing"
    ELSE "pending"

Rank(g) ==
    IF Phase(g) = "pending" THEN 0 ELSE IF Phase(g) = "playing" THEN 1 ELSE 2

\* the cursor of the mounted page's engine
Cursor(g) ==
    IF page = "word" THEN g.currentWordIndex ELSE g.currentCharIndex

\* a key event as the mounted page handles it, its $effect included
KeyEvent(w, key) ==
    IF page = "word" THEN WordEffect(WordKeyDown(w, key))
    ELSE FormattedEffect(FormattedKeyDown(w, key))

\* a run of key events
RECURSIVE KeyEvents(_, _)
KeyEvents(w, keys) ==
    IF keys = <<>> THEN w
    ELSE KeyEvents(KeyEvent(w, Head(keys)), Tail(keys))

\* what the engines' accuracy is specified to be
AccuracyOf(correctChars, totalChars) ==
    IF totalChars > 0 THEN RoundDiv(100 * correctChars, totalChars) ELSE 100

\* (userInput, totalChars, correctChars, cursor) of a state
Typed(g) == <<g.userInput, g.totalChars, g.correctChars, Cursor(g)>>

----------------------------------------------------------------------------
(* C1: in every reachable state of either engine,                          *)
(* 0 <= correctChars <= totalChars.                                        *)
C1_CountsInRange ==
    /\ 0 <= gameStates.correctChars
    /\ gameStates.correctChars <= gameStates.totalChars

(* C2: Backspace undoes the keystroke before it: from a playing state, a   *)
(* key (a printable character, Space, Enter or Tab) that the engine takes  *)
(* as input and that leaves the game playing, followed by one Backspace,   *)
(* restores userInput, totalChars, correctChars and the cursor.            *)
C2_BackspaceInverts ==
    gameStates.isPlaying =>
        \A key \in PrintableKeys \cup {"Enter", "Tab"} :
            LET typed == KeyEvent(World, key)
            IN (typed.gs.isPlaying /\ Typed(typed.gs) # Typed(gameStates)) =>
                   Typed(KeyEvent(typed, "Backspace").gs) = Typed(gameStates)

(* C3: formatted-mode tab equivalence.  On the target text "a\tb", the    *)
(* keys a, Tab, b and the keys a, Space, Space, Space, Space, b end in the *)
(* same (correctChars, totalChars, cursor), both finished and both fully   *)
(* correct.                                                                *)
ATabB == <<"a", TAB, "b">>

Outcome(w) == <<w.gs.correctChars, w.gs.totalChars, w.gs.currentCharIndex>>

C3_TabEquivalence ==
    (page = "formatted" /\ gameStates.currentText = ATabB
        /\ gameStates.isPending) =>
        LET viaTab == KeyEvents(World, <<"a", "Tab", "b">>)
            viaSpaces ==
                KeyEvents(World, <<"a", SPACE, SPACE, SPACE, SPACE, "b">>)
        IN /\ Outcome(viaTab) = Outcome(viaSpaces)
           /\ viaTab.gs.isFinish /\ viaSpaces.gs.isFinish
           /\ viaTab.gs.correctChars = viaTab.gs.totalChars
           /\ viaSpaces.gs.correctChars = viaSpaces.gs.totalChars

\* the session on "a\tb" finished with the tab filled by four spaces
C3_Witness ==
    /\ page = "formatted"
    /\ gameStates.currentText = ATabB
    /\ gameStates.isFinish
    /\ gameStates.userInput = <<"a", SPACE, SPACE, SPACE, SPACE, "b">>
    /\ Outcome(World) = <<6, 6, 3>>

(* C4: word-mode completion.  In words mode, typing every word of the      *)
(* target exactly, with one Space between consecutive words, finishes the  *)
(* session with correctChars = totalChars = the sum of the word lengths.   *)
RECURSIVE ExactKeys(_)
ExactKeys(text) ==
    IF Len(text) = 1 THEN text[1]
    ELSE text[1] \o <<SPACE>> \o ExactKeys(Tail(text))

C4_ExactTypingFinishes ==
    (page = "word" /\ gameStates.mode = "words" /\ gameStates.isPending) =>
        LET done == KeyEvents(World, ExactKeys(gameStates.currentText)).gs
        IN /\ done.isFinish
           /\ done.correctChars = SumLen(gameStates.currentText)
           /\ done.totalChars = SumLen(gameStates.currentText)

\* a words-mode session finished with every word typed exactly
C4_Witness ==
    /\ page = "word"
    /\ gameStates.mode = "words"
    /\ gameStates.isFinish
    /\ gameStates.userInput = gameStates.currentText
    /\ gameStates.correctChars = SumLen(gameStates.currentText)
    /\ gameStates.totalChars = SumLen(gameStates.currentText)

\* the target text a practice of the document has on the mounted page
DocumentText(doc) ==
    IF page = "word" THEN SplitWords(doc.content, <<>>) ELSE doc.content

\* the session is a custom practice of a document, on that document's text
PractisesDocument ==
    /\ customPracticeState.isCustomPractice
    /\ \E doc \in Documents :
           /\ doc.id = customPracticeState.document
           /\ gameStates.currentText = DocumentText(doc)

(* C5: in a custom-practice session addPerformance is called exactly once  *)
(* per finished session (and not before the session is finished).          *)
C5_RecordedOncePerSession ==
    PractisesDocument => Len(recorded) = (IF gameStates.isFinish THEN 1 ELSE 0)

(* C6: the summary handed to addPerformance is a snapshot of the session's *)
(* final state: its counts are the final counts, its accuracy is the       *)
(* accuracy the engine stores for those counts and its wpm is recomputed   *)
(* from those counts and the elapsed time.                                 *)
ElapsedSeconds(g) ==
    IF g.mode = "time" THEN g.timeElapsedMode - g.timeElapsed
    ELSE g.timeElapsed

WpmOf(correctChars, seconds) ==
    IF seconds > 0 THEN RoundDiv(12 * correctChars, seconds) ELSE 0

C6_SummaryIsFinalState ==
    gameStates.isFinish =>
        \A i \in 1..Len(recorded) :
            /\ recorded[i].correctChars = gameStates.correctChars
            /\ recorded[i].totalChars = gameStates.totalChars
            /\ recorded[i].accuracy = gameStates.accuracy
            /\ recorded[i].wpm =
                   WpmOf(recorded[i].correctChars, ElapsedSeconds(gameStates))

(* C7: a performance is recorded for document D only when the session's    *)
(* target text was D's text (its words on the word page, its content on    *)
(* the formatted page).                                                    *)
C7_RecordsOnlyDocumentText ==
    \A i \in 1..Len(recorded) :
        \E doc \in Documents :
            /\ doc.id = recorded[i].documentId
            /\ gameStates.currentText = DocumentText(doc)

(* C8: phase moves only forward, pending -> playing -> finished: no key    *)
(* event and no tick moves it backward, and any step that does move it     *)
(* backward is a reset that lands in a fresh pending session.              *)
\* a step of a key event or a tick (neither leaves the page)
KeyOrTickStep ==
    /\ page' = page
    /\ KeyDownWord \/ TickWord \/ KeyDownFormatted \/ TickFormatted

C8_PhaseMonotonic ==
    [][Rank(gameStates') < Rank(gameStates) =>
           /\ ~KeyOrTickStep
           /\ Phase(gameStates') = "pending"
           /\ gameStates'.totalChars = 0
           /\ gameStates'.correctChars = 0]_vars

\* a session that went all the way: finished, with keys typed
C8_Witness ==
    /\ gameStates.isFinish
    /\ gameStates.totalChars > 0
    /\ page = "word"

(* C9: a key event received while the phase is finished changes nothing:   *)
(* not the game state, not the timer, and no performance is recorded.      *)
C9_KeysIgnoredWhenFinished ==
    Phase(gameStates) = "finished" =>
        \A key \in Keys : KeyEvent(World, key) = World

\* a finished custom-practice session on the formatted page
C9_Witness ==
    /\ page = "formatted"
    /\ Phase(gameStates) = "finished"
    /\ gameStates.totalChars > 0
    /\ recorded # <<>>

(* C10: the stored accuracy is round(correctChars / totalChars * 100) when *)
(* totalChars > 0 and 100 when totalChars = 0.                             *)
C10_AccuracyFormula ==
    gameStates.accuracy =
        AccuracyOf(gameStates.correctChars, gameStates.totalChars)

\* a step in which the interval's callback runs
TickStep ==
    /\ page' = page
    /\ ticks' = ticks + 1
    /\ TickWord \/ TickFormatted

(* C11: after every timer tick, wpm is round((correctChars / 5) / minutes) *)
(* for the correctChars typed so far and the time since the session        *)
(* started (one second per tick), and 0 when no time has elapsed.          *)
C11_WpmAfterTick ==
    [][TickStep =>
           gameStates'.wpm = WpmOf(gameStates'.correctChars, ticks')]_vars

(* C12: time-mode termination.  In time mode with a duration of N seconds  *)
(* a started session is finished, its timer stopped, once N ticks have     *)
(* run, whatever keys were typed in between; it is playing until then, and *)
(* no tick runs after the N-th.                                            *)
C12_TimeModeTermination ==
    (gameStates.mode = "time" /\ ~gameStates.isPending) =>
        /\ ticks <= gameStates.timeElapsedMode
        /\ gameStates.timeElapsed = gameStates.timeElapsedMode - ticks
        /\ ticks < gameStates.timeElapsedMode =>
               gameStates.isPlaying /\ ~gameStates.isFinish
        /\ ticks = gameStates.timeElapsedMode =>
               gameStates.isFinish /\ ~gameStates.isPlaying /\ ~timerInterval

\* a time-mode session with typed keys, ended by its last tick
C12_Witness ==
    /\ page = "word"
    /\ gameStates.mode = "time"
    /\ gameStates.isFinish
    /\ ticks = gameStates.timeElapsedMode
    /\ gameStates.timeElapsedMode > 0
    /\ gameStates.totalChars > 0

\* a step in which a key event starts a pending session
StartingKeyStep ==
    /\ page' = page
    /\ gameStates.isPending /\ ~gameStates'.isPending
    /\ KeyDownWord \/ KeyDownFormatted

(* C13: the first key event of a pending session starts it with the        *)
(* elapsed-seconds field initialised for the mode: the duration in time    *)
(* mode (counting down) and 0 in words mode (counting up), on both pages.  *)
C13_StartInitialisesElapsed ==
    [][StartingKeyStep =>
           gameStates'.timeElapsed =
               IF gameStates'.mode = "time" THEN gameStates'.timeElapsedMode
               ELSE 0]_vars

(* C14: the cursor stays within the target text: never below 0, on the     *)
(* word page never above the last word's index, on the formatted page      *)
(* never above the text's length, where it stands only in a finished       *)
(* session.                                                                *)
C14_CursorInBounds ==
    /\ Cursor(gameStates) >= 0
    /\ page = "word" =>
           gameStates.currentWordIndex <= Max(0, Len(gameStates.currentText) - 1)
    /\ page = "formatted" =>
           /\ gameStates.currentCharIndex <= Len(gameStates.currentText)
           /\ gameStates.currentCharIndex = Len(gameStates.currentText) =>
                  gameStates.isFinish

\* stopGame of the mounted page
StopGame(w) ==
    IF page = "word" THEN WordStopGame(w) ELSE FormattedStopGame(w)

\* what initGame of the mounted page can make of w
InitGame(w) ==
    IF page = "word"
    THEN {WordInitGame(w, rnd) :
              rnd \in GenerateRandomText(WordInitCount(w.gs))}
    ELSE {FormattedInitGame(w)}

(* C15: one timer at most, cancelled by finish and by reset in whatever    *)
(* phase they run: an interval is live only in a playing session, and in   *)
(* every state stopGame and initGame leave no live interval behind, so no   *)
(* tick follows them before the next start.                                *)
C15_FinishAndResetCancelTimer ==
    /\ timerInterval => gameStates.isPlaying
    /\ ~StopGame(World).timer
    /\ \A w \in InitGame(World) : ~w.timer

----------------------------------------------------------------------------
(* Properties of the progress utilities, under ProgressSpec *)

\* the arguments of the store's update
ArgText == progressStore.args[1]
ArgInput == progressStore.args[2]
ArgIndex == progressStore.args[3]

\* the positions (word, offset), in words at or before the cursor word,
\* where the typed character is the target character
CorrectPositions ==
    {pos \in (1..Len(ArgText)) \X (1..SumLen(ArgText)) :
        /\ pos[1] - 1 <= ArgIndex
        /\ pos[2] <= Len(ArgText[pos[1]])
        /\ pos[2] <= Len(InputAt(ArgInput, pos[1]))
        /\ ArgText[pos[1]][pos[2]] = InputAt(ArgInput, pos[1])[pos[2]]}

C17_StatusBuckets ==
    progressStore.updated =>
        LET p == progressStore.progress
            pct == p.progressPercentage
        IN /\ pct \in 0..1000
           /\ (p.status = "start") = (pct < 250)
           /\ (p.status = "low") = (pct >= 250 /\ pct < 500)
           /\ (p.status = "medium") = (pct >= 500 /\ pct < 750)
           /\ (p.status = "high") = (pct >= 750 /\ pct < 1000)
           /\ (p.status = "complete") = (pct = 1000)
           /\ getProgressStatus(pct) = p.status

\* a record exactly on the 75 percent threshold
C17_Witness ==
    /\ progressStore.updated
    /\ progressStore.progress.progressPercentage = 750
    /\ progressStore.progress.status = "high"

\* the typed word i is at least as long as the target and equals it over
\* the target's length
TypedInFull(i) ==
    LET word == ArgText[i]
        input == InputAt(ArgInput, i)
    IN /\ Len(input) >= Len(word)
       /\ \A j \in 1..Len(word) : input[j] = word[j]

(* C18: calculateTypingProgress counts a word toward wordsCompleted only   *)
(* if it lies before the cursor word, its typed length is at least the     *)
(* target's length and every compared character matched; a word with a     *)
(* mismatch or with fewer typed characters than the target is not counted. *)
C18_WordsCompleted ==
    progressStore.updated =>
        progressStore.progress.wordsCompleted =
            Cardinality({i \in 1..Len(ArgText) :
                            i - 1 < ArgIndex /\ TypedInFull(i)})

\* two words before the cursor, one typed in full and one typed to full
\* length with a mismatch: only the first is counted
C18_Witness ==
    /\ progressStore.updated
    /\ ArgIndex = 2
    /\ TypedInFull(1)
    /\ Len(InputAt(ArgInput, 2)) >= Len(ArgText[2])
    /\ ~TypedInFull(2)
    /\ progressStore.progress.wordsCompleted = 1

----------------------------------------------------------------------------
(* The word page's progress indicator over the engine state *)

\* progressData of progress-indicator.svelte
progressData ==
    IF gameStates.isPending
    THEN [EmptyProgress EXCEPT !.totalWords = Len(gameStates.currentText)]
    ELSE calculateTypingProgress(gameStates.currentText, gameStates.userInput,
                                 gameStates.currentWordIndex)

\* a metric that is a number
IsFinite(x) == x \notin {NaN, Infinity}

(* C19: every division is guarded: when totalChars is 0 the engine's       *)
(* accuracy is 100 and the progress percentage is 0 (and the progress      *)
(* accuracy is 100 when nothing was typed), when no time has elapsed wpm   *)
(* is 0, and no metric is NaN or infinite in any reachable state.          *)
C19_DivisionsGuarded ==
    /\ IsFinite(gameStates.accuracy)
    /\ IsFinite(gameStates.wpm)
    /\ gameStates.totalChars = 0 => gameStates.accuracy = 100
    /\ ElapsedSeconds(gameStates) <= 0 => gameStates.wpm = 0
    /\ page = "word" =>
           /\ IsFinite(progressData.progressPercentage)
           /\ IsFinite(progressData.accuracy)
           /\ gameStates.totalChars = 0 =>
                  /\ progressData.progressPercentage = 0
                  /\ progressData.accuracy = 100

\* a running word-page session whose only typed character was deleted:
\* updateAccuracy has divided 0 by 0
C19_Witness ==
    /\ page = "word"
    /\ gameStates.isPlaying
    /\ gameStates.totalChars = 0
    /\ gameStates.accuracy = 100
    /\ ticks > 0
    /\ gameStates.wpm = 0

----------------------------------------------------------------------------
\* the call of the documented example
ExampleArgs == <<<<HelloW, WorldW, TestW>>, <<HelloW, WorW, <<>>>>, 1>>

----------------------------------------------------------------------------
(* Keystroke rules of the two engines *)

\* a key step of the formatted page that moves the cursor forward onto a
\* tab of the target, the session still playing
ArrivesAtTab ==
    /\ page = "formatted" /\ page' = page
    /\ KeyDownFormatted
    /\ gameStates'.isPlaying
    /\ gameStates'.currentText = gameStates.currentText
    /\ gameStates'.currentCharIndex > gameStates.currentCharIndex
    /\ CharAt(gameStates'.currentText, gameStates'.currentCharIndex) = TAB

\* from w, with the cursor on a tab: n Space keys
RECURSIVE Spaces(_, _)
Spaces(w, n) ==
    IF n = 0 THEN w
    ELSE FormattedKeyDown(Spaces(w, n - 1), SPACE)

\* the first three spaces are counted correct and leave the cursor on the
\* tab, the fourth is counted correct and moves the cursor past it
FourSpacesFillTab(w) ==
    /\ \A n \in 1..3 :
        /\ Spaces(w, n).gs.currentCharIndex = w.gs.currentCharIndex
        /\ Spaces(w, n).gs.correctChars = w.gs.correctChars + n
    /\ Spaces(w, 4).gs.currentCharIndex = w.gs.currentCharIndex + 1
    /\ Spaces(w, 4).gs.correctChars = w.gs.correctChars + 4

(* C21: in formatted mode, once the cursor has reached a tab of the        *)
(* target, typing spaces satisfies the tab after exactly four Space keys:  *)
(* each of the first three is counted correct without moving the cursor,   *)
(* the fourth is counted correct and moves the cursor by one, whatever was *)
(* typed before the tab was reached.                                       *)
C21_TabTakesFourSpaces ==
    [][ArrivesAtTab => FourSpacesFillTab(World')]_vars

\* the keys that type one character on the formatted page
OneCharKeys == PrintableKeys \cup {"Enter"}

(* C22: in formatted mode Backspace on non-empty input removes the last    *)
(* typed character, takes 1 off totalChars, takes 1 off correctChars       *)
(* exactly if the removed keystroke had been counted correct, and moves    *)
(* the cursor back by 1 exactly if that keystroke had advanced it: a       *)
(* keystroke followed by Backspace restores userInput, totalChars,         *)
(* correctChars and the cursor.                                            *)
C22_BackspaceUndoesKeystroke ==
    (page = "formatted" /\ ~gameStates.isFinish) =>
        \A key \in OneCharKeys :
            LET before == IF gameStates.isPending
                          THEN FormattedStartGame(World) ELSE World
                typed == FormattedKeyDown(World, key)
                undone == FormattedKeyDown(typed, "Backspace")
            IN typed.gs.isPlaying => Typed(undone.gs) = Typed(before.gs)

\* the cursor of the word page is on the last word of the text
OnLastWord(g) == g.currentWordIndex >= Len(g.currentText) - 1

(* C23: in word mode, Space on a word that is not the last moves the       *)
(* cursor to the next word, and Space on the last word finishes the        *)
(* session, in time mode as in words mode.                                 *)
C23_SpaceAdvancesOrFinishes ==
    (page = "word" /\ ~gameStates.isFinish) =>
        LET after == KeyEvent(World, SPACE).gs
        IN IF OnLastWord(gameStates)
           THEN Phase(after) = "finished"
           ELSE /\ after.currentWordIndex = gameStates.currentWordIndex + 1
                /\ Phase(after) = "playing"

\* a printable key that brings the last word's input to the word's length
FillsLastWord(key) ==
    /\ page = "word"
    /\ ~gameStates.isFinish
    /\ gameStates.currentText # <<>>
    /\ key \in PrintableKeys \ {SPACE}
    /\ gameStates.currentWordIndex = Len(gameStates.currentText) - 1
    /\ Len(gameStates.userInput[gameStates.currentWordIndex + 1]) + 1 =
           Len(gameStates.currentText[gameStates.currentWordIndex + 1])

(* C24: in word mode, a printable character typed on the last word that    *)
(* brings its input to exactly the target word's length finishes the       *)
(* session, whether or not the typed characters match the target.          *)
C24_FullLengthLastWordFinishes ==
    \A key \in PrintableKeys :
        FillsLastWord(key) => Phase(KeyEvent(World, key).gs) = "finished"

\* the input and the target of the word under the word page's cursor
CurrentInput == gameStates.userInput[gameStates.currentWordIndex + 1]
CurrentWord == gameStates.currentText[gameStates.currentWordIndex + 1]

\* the word page is playing on a word of its text
TypingAWord ==
    /\ page = "word"
    /\ gameStates.isPlaying
    /\ gameStates.currentWordIndex < Len(gameStates.currentText)

(* C25: in word mode a character typed beyond the target word's length is  *)
(* accepted: it is appended to the word's input and adds 1 to totalChars   *)
(* but never to correctChars, and removing such a character with Backspace *)
(* never takes anything off correctChars.                                  *)
C25_OverflowNeverCorrect ==
    TypingAWord =>
        /\ Len(CurrentInput) >= Len(CurrentWord) =>
               \A key \in PrintableKeys \ {SPACE} :
                   LET after == KeyEvent(World, key).gs
                   IN /\ after.userInput[gameStates.currentWordIndex + 1] =
                             Append(CurrentInput, key)
                      /\ after.totalChars = gameStates.totalChars + 1
                      /\ after.correctChars = gameStates.correctChars
        /\ Len(CurrentInput) > Len(CurrentWord) =>
               LET after == KeyEvent(World, "Backspace").gs
               IN /\ after.userInput[gameStates.currentWordIndex + 1] =
                         DropLast(CurrentInput)
                  /\ after.totalChars = gameStates.totalChars - 1
                  /\ after.correctChars = gameStates.correctChars

\* a word typed correctly and then one character too far
C25_Witness ==
    /\ TypingAWord
    /\ Len(CurrentInput) > Len(CurrentWord)
    /\ gameStates.correctChars = Len(CurrentWord)
    /\ gameStates.totalChars = Len(CurrentInput)

\* game state g differs from the present one in the cursor and the phase
\* flags at most
OnlyCursorAndPhaseChanged(g) ==
    [g EXCEPT !.currentWordIndex = gameStates.currentWordIndex,
              !.isPlaying = gameStates.isPlaying,
              !.isFinish = gameStates.isFinish,
              !.isPending = gameStates.isPending] = gameStates

(* C26: in word mode, Space, and Backspace on an empty current word with   *)
(* the cursor past the first word, change only the cursor (Space possibly  *)
(* also the phase): totalChars, correctChars and the stored input of every *)
(* word are unchanged; Backspace on an empty first word changes nothing.   *)
C26_SpaceAndEmptyBackspaceFrame ==
    TypingAWord =>
        /\ LET after == KeyEvent(World, SPACE).gs
           IN /\ OnlyCursorAndPhaseChanged(after)
              /\ after.isFinish \/ after.isPlaying
        /\ CurrentInput = <<>> =>
               LET after == KeyEvent(World, "Backspace")
               IN IF gameStates.currentWordIndex > 0
                  THEN after = [World EXCEPT !.gs.currentWordIndex = @ - 1]
                  ELSE after = World

\* the cursor on an empty second word after a typed first word: Space has
\* moved it there, Backspace will move it back
C26_Witness ==
    /\ TypingAWord
    /\ gameStates.currentWordIndex = 1
    /\ CurrentInput = <<>>
    /\ gameStates.userInput[1] # <<>>
    /\ gameStates.totalChars = Len(gameStates.userInput[1])

\* the target text of the formatted page has no tab
NoTabInText == \A i \in 1..Len(gameStates.currentText) :
                   gameStates.currentText[i] # TAB

(* C27: in formatted mode every keystroke that is not filling a tab        *)
(* consumes one target position, even on mismatch: for a target text       *)
(* without a tab, the cursor equals the length of userInput in every       *)
(* reachable state.                                                        *)
C27_CursorTracksInput ==
    (page = "formatted" /\ NoTabInText) =>
        gameStates.currentCharIndex = Len(gameStates.userInput)

\* two mismatched keystrokes into a text without tabs
C27_Witness ==
    /\ page = "formatted"
    /\ NoTabInText
    /\ gameStates.isPlaying
    /\ gameStates.correctChars = 0
    /\ Len(gameStates.userInput) = 2
    /\ gameStates.currentCharIndex = 2

----------------------------------------------------------------------------
(* C28: a timer tick changes only elapsedSeconds (by exactly +1 in words   *)
(* mode and exactly -1 in time mode), wpm and possibly the phase (to       *)
(* finished, in time mode only); it never changes the cursor, userInput,   *)
(* correctChars, totalChars or accuracy.                                   *)
C28_TickFrame ==
    [][TickStep =>
        /\ gameStates'.timeElapsed =
               gameStates.timeElapsed
                   + (IF gameStates.mode = "words" THEN 1 ELSE -1)
        /\ [gameStates' EXCEPT !.timeElapsed = gameStates.timeElapsed,
                               !.wpm = gameStates.wpm,
                               !.isPlaying = gameStates.isPlaying,
                               !.isFinish = gameStates.isFinish,
                               !.isPending = gameStates.isPending]
               = gameStates
        /\ \/ Phase(gameStates') = Phase(gameStates)
           \/ gameStates.mode = "time" /\ Phase(gameStates') = "finished"
      ]_vars

\* a time-mode session that was typed into and has had a tick
C28_Witness ==
    /\ page = "word"
    /\ gameStates.mode = "time"
    /\ gameStates.isPlaying
    /\ ticks > 0
    /\ gameStates.timeElapsed = gameStates.timeElapsedMode - ticks
    /\ gameStates.totalChars > 0

(* C29: the displayed accuracy is never negative and never exceeds 100: in *)
(* every reachable state of both engines, 0 <= accuracy <= 100.            *)
C29_AccuracyInRange ==
    gameStates.accuracy >= 0 /\ gameStates.accuracy <= 100

\* startGame of the mounted page
StartGame(w) ==
    IF page = "word" THEN WordStartGame(w) ELSE FormattedStartGame(w)

\* the characters of game state g's input, over all words on the word page
TypedChars(g) == IF page = "word" THEN SumLen(g.userInput) ELSE Len(g.userInput)

(* C30: a key event received while pending first moves the phase to        *)
(* playing and starts the timer, and is then processed as the first        *)
(* keystroke of the session in the same handler: a printable first key is  *)
(* appended to the input and counted in totalChars.                        *)
C30_FirstKeyStartsAndTypes ==
    gameStates.isPending =>
        \A key \in Keys :
            LET started == StartGame(World)
                after == KeyEvent(World, key)
            IN /\ started.gs.isPlaying /\ started.timer
               /\ after = KeyEvent(started, key)
               /\ ~after.gs.isPending
               /\ after.gs.isFinish \/ (after.gs.isPlaying /\ after.timer)
               /\ (IsSingleChar(key) /\ ~(page = "word" /\ key = SPACE)) =>
                      /\ after.gs.totalChars = 1
                      /\ TypedChars(after.gs) = 1
                      /\ IF page = "word"
                         THEN after.gs.userInput[1] = <<key>>
                         ELSE after.gs.userInput = <<key>>

\* a session its first key has started and typed into
C30_Witness ==
    /\ page = "word"
    /\ gameStates.isPlaying
    /\ timerInterval
    /\ ticks = 0
    /\ gameStates.totalChars = 1
    /\ Len(gameStates.userInput[1]) = 1

----------------------------------------------------------------------------
(* Session lifecycle *)

\* game state g is a fresh pending session of the mounted page
FreshPending(g) ==
    /\ g.isPending /\ ~g.isPlaying /\ ~g.isFinish
    /\ Cursor(g) = 0
    /\ g.correctChars = 0 /\ g.totalChars = 0
    /\ g.accuracy = 100 /\ g.wpm = 0
    /\ IF page = "word"
       THEN /\ Len(g.userInput) = Len(g.currentText)
            /\ \A i \in 1..Len(g.userInput) : g.userInput[i] = <<>>
       ELSE g.userInput = <<>>

(* C31: reset (initGame) is legal in every phase and always yields a fresh *)
(* pending session: phase pending, cursor 0, correctChars 0, totalChars 0, *)
(* accuracy 100, wpm 0 and empty input at every position, whatever the     *)
(* state it is invoked in.                                                 *)
C31_ResetYieldsFreshSession ==
    \A w \in InitGame(World) : FreshPending(w.gs)

\* a playing session with typed characters, a mistake and a tick behind it,
\* in which reset is invoked
C31_Witness ==
    /\ gameStates.isPlaying
    /\ gameStates.totalChars > gameStates.correctChars
    /\ gameStates.correctChars > 0
    /\ ticks > 0
    /\ \A w \in InitGame(World) : FreshPending(w.gs) /\ w.gs # gameStates

\* the session configuration and the target text
Config(g) == <<g.mode, g.totalGenerateWords, g.timeElapsedMode, g.currentText>>

(* C32: from its start until it is finished, no key event and no timer     *)
(* tick changes a session's configuration or target text: mode,            *)
(* totalGenerateWords, timeElapsedMode and currentText are unchanged.      *)
C32_ConfigReadOnlyInSession ==
    [][(KeyOrTickStep /\ ~gameStates.isFinish) =>
           Config(gameStates') = Config(gameStates)]_vars

\* a words-mode session configured through the filter, typed into and
\* ticked
C32_Witness ==
    /\ page = "word"
    /\ gameStates.mode = "words"
    /\ gameStates.totalGenerateWords = WordFilters[1]
    /\ gameStates.isPlaying
    /\ ticks > 0
    /\ gameStates.totalChars > 0

----------------------------------------------------------------------------
(* Properties of the stores, under StoreSpec *)

\* how often x occurs in seq
Occurrences(seq, x) == Cardinality({i \in 1..Len(seq) : seq[i] = x})

\* the elements of seq
Range(seq) == {seq[i] : i \in 1..Len(seq)}

(* C33: deleteDocument(id) removes the document and all of its performance *)
(* records: afterwards the store holds no document with that id and no     *)
(* performance record whose documentId is id, while documents and records  *)
(* with other ids are unchanged.                                           *)
C33_DeleteRemovesDocumentAndRecords ==
    \A id \in DocumentIds :
        LET after == deleteDocument(documentStore, id)
        IN /\ \A doc \in Range(after.documents) : doc.id # id
           /\ \A perf \in Range(after.performances) : perf.documentId # id
           /\ \A doc \in Range(documentStore.documents) :
                  doc.id # id =>
                      Occurrences(after.documents, doc) =
                          Occurrences(documentStore.documents, doc)
           /\ \A perf \in Range(documentStore.performances) :
                  perf.documentId # id =>
                      Occurrences(after.performances, perf) =
                          Occurrences(documentStore.performances, perf)
           /\ Range(after.documents) \subseteq Range(documentStore.documents)
           /\ Range(after.performances)
                  \subseteq Range(documentStore.performances)

\* the first of two documents deleted, a record of the second still held
C33_Witness ==
    /\ documentStore.issued = 2
    /\ Len(documentStore.documents) = 1
    /\ documentStore.documents[1].id = 2
    /\ Len(documentStore.performances) > 0
    /\ \A perf \in Range(documentStore.performances) : perf.documentId = 2

(* C34: when the document selected for custom practice is deleted from the *)
(* document store, the custom-practice store resets to its initial state;  *)
(* adding, updating or deleting any other document leaves the              *)
(* custom-practice state unchanged.                                        *)
C34_OnlyDeletingSelectedResets ==
    LET After(store) == DocumentsChanged(customPracticeState, store.documents)
        selected == customPracticeState.document
    IN /\ (customPracticeState.isCustomPractice /\ selected # 0) =>
              After(deleteDocument(documentStore, selected)) = initialState
       /\ \A content \in DocContents :
              After(addDocument(documentStore, content)) = customPracticeState
       /\ \A id \in DocumentIds \ {selected} :
              /\ After(deleteDocument(documentStore, id)) = customPracticeState
              /\ \A content \in DocContents :
                     After(updateDocument(documentStore, id, content)) =
                         customPracticeState

----------------------------------------------------------------------------
(* The word page's counters against its inputs *)

\* the progress function applied to the session of the page
SessionProgress ==
    calculateTypingProgress(gameStates.currentText, gameStates.userInput,
                            gameStates.currentWordIndex)

(* C35: on the word page, in every reachable state correctChars equals the *)
(* correctChars that calculateTypingProgress(currentText, userInput,       *)
(* currentWordIndex) computes, and totalChars equals the total length of   *)
(* all per-word inputs.                                                    *)
C35_CountersMatchInputs ==
    page = "word" =>
        /\ gameStates.correctChars = SessionProgress.correctChars
        /\ gameStates.totalChars = SumLen(gameStates.userInput)

\* the cursor on the second word, one word holding a right character and
\* the other a wrong one
C35_Witness ==
    /\ page = "word"
    /\ gameStates.currentWordIndex = 1
    /\ Len(gameStates.userInput[1]) > 0
    /\ Len(gameStates.userInput[2]) > 0
    /\ gameStates.correctChars > 0
    /\ gameStates.correctChars < gameStates.totalChars

\* the inputs of the words after the cursor word are empty
LaterWordsEmpty(g) ==
    \A j \in (g.currentWordIndex + 2)..Len(g.userInput) : g.userInput[j] = <<>>

(* C36: on the word page, in every reachable state every word after the   *)
(* cursor word has empty input, so Space followed by Backspace returns to  *)
(* the same word with all inputs unchanged.                                *)
C36_SpaceBackspaceReturns ==
    page = "word" =>
        /\ LaterWordsEmpty(gameStates)
        /\ LET after == KeyEvents(World, <<SPACE, "Backspace">>).gs
           IN /\ after.currentWordIndex = gameStates.currentWordIndex
              /\ after.userInput = gameStates.userInput

----------------------------------------------------------------------------
(* The formatted page's counters against its input *)

(* C37: on the formatted page totalChars equals the length of userInput in *)
(* every reachable state.                                                  *)
C37_TotalCharsIsInputLength ==
    page = "formatted" => gameStates.totalChars = Len(gameStates.userInput)

\* a playing session whose input holds the spaces typed for a tab, so that
\* the input is longer than the cursor is far
C37_Witness ==
    /\ page = "formatted"
    /\ gameStates.isPlaying
    /\ Len(gameStates.userInput) >= 4
    /\ gameStates.totalChars >= 4
    /\ gameStates.userInput[4] = SPACE
    /\ gameStates.currentCharIndex < Len(gameStates.userInput)

----------------------------------------------------------------------------
(* The progress of a finished session *)

\* a session of the word page finished with every word typed exactly
FinishedExactly ==
    /\ page = "word"
    /\ gameStates.isFinish
    /\ gameStates.userInput = gameStates.currentText

(* C38: when a session of the word page finishes with every word typed     *)
(* exactly, calculateTypingProgress applied to the final state gives       *)
(* progressPercentage 100, status 'complete' and wordsCompleted equal to   *)
(* totalWords.                                                             *)
C38_ExactFinishIsComplete ==
    FinishedExactly =>
        /\ SessionProgress.progressPercentage = 1000
        /\ SessionProgress.status = "complete"
        /\ SessionProgress.wordsCompleted = SessionProgress.totalWords

----------------------------------------------------------------------------
(* The phase flags *)

\* how many of the three phase flags are set
FlagsSet(g) ==
    (IF g.isPending THEN 1 ELSE 0) + (IF g.isPlaying THEN 1 ELSE 0)
        + (IF g.isFinish THEN 1 ELSE 0)

(* C39: exactly one of the three phase flags isPending, isPlaying and      *)
(* isFinish is true in every reachable state of both pages.                *)
C39_OnePhaseFlag == page \in {"word", "formatted"} => FlagsSet(gameStates) = 1

\* a session of the formatted page started by a key and finished by
\* stopGame, which writes isPlaying and isFinish only
C39_Witness ==
    /\ page = "formatted"
    /\ gameStates.isFinish
    /\ gameStates.totalChars > 0

----------------------------------------------------------------------------
(* The range of the clock *)

\* timeElapsed is within the range of the session's mode
ClockInRange(g) ==
    /\ g.timeElapsed >= 0
    /\ g.mode = "time" => g.timeElapsed <= g.timeElapsedMode

(* C40: under any interleaving of ticks and key events the clock stays in  *)
(* range: in time mode 0 <= timeElapsed <= timeElapsedMode at all times,   *)
(* and in words mode timeElapsed is non-negative and never decreases while *)
(* the session is playing.                                                 *)
C40_ClockInRange ==
    /\ [](page \in {"word", "formatted"} => ClockInRange(gameStates))
    /\ [][(/\ KeyOrTickStep
           /\ gameStates.mode = "words"
           /\ gameStates.isPlaying
           /\ gameStates'.isPlaying)
              => gameStates'.timeElapsed >= gameStates.timeElapsed]_vars

\* a time-mode session counted down to the end of its time
C40_Witness ==
    /\ page = "word"
    /\ gameStates.mode = "time"
    /\ gameStates.isFinish
    /\ gameStates.timeElapsed = 0
    /\ ticks = gameStates.timeElapsedMode

====
